---- MODULE Spec2Model ----
(***************************************************************************)
(* chrono-light: a timezone-naive calendar.  The module models, from       *)
(* src/src/calendar.rs, the conversions DateTime <-> unix time in ms,      *)
(* DateTime validation, the schedule query next_occurrence_ms and the      *)
(* catch-up loop next_occurrence_ms_with_past_triggers.                    *)
(*                                                                         *)
(* u64 millisecond values reach 6.4e13 and do not fit the model checker's  *)
(* 32-bit integers, so a u64 is kept as the record [days, ms] with         *)
(* value = days * MS_IN_DAY + ms and 0 <= ms < MS_IN_DAY; the operators    *)
(* U64Add, U64Sub, U64Lt, U64Mod are exact u64 arithmetic on that form.    *)
(***************************************************************************)
EXTENDS Integers, Sequences, FiniteSets, TLC

VARIABLES
    pc,               \* the operation that was last applied, or "idle"
    ret,              \* what it returned
    dt, ts,           \* the DateTime and the timestamp of a conversion
    overflow_checks,  \* the build: TRUE when integer overflow panics
    now, schedule,    \* the arguments of a schedule query
    last_run,         \* the last_run argument of the catch-up query
    lr, lr_ms,        \* its locals last_run and last_run_ms
    triggers,         \* its local triggers
    next_trigger      \* its local next_trigger

vars == <<pc, ret, dt, ts, overflow_checks, now, schedule, last_run, lr, lr_ms, triggers, next_trigger>>

conv_vars == <<dt, ts>>
sched_vars == <<overflow_checks, now, schedule>>
enum_vars == <<last_run, lr, lr_ms, triggers, next_trigger>>

(***************************************************************************)
(* Bounds of the model.                                                    *)
(***************************************************************************)
\* input years are taken within YearWindow of each anchor year
YearWindow == 1

\* the multipliers of the rules are 1..MaxMult
MaxMult == 3

\* the longest list of rules of a schedule
MaxItems == 2

\* the most past triggers the enumerator's loop is followed for
MaxTriggers == 9

(***************************************************************************)
(* Constants (constants.rs).                                               *)
(***************************************************************************)
EPOCH_YEAR == 1970
CURRENT_YEAR == 2022
LAST_YEAR == 4000
MS_IN_SEC == 1000
MS_IN_MIN == 60 * MS_IN_SEC
MS_IN_HOUR == 60 * MS_IN_MIN
MS_IN_DAY == 24 * MS_IN_HOUR

LEAP_YEARS == {y \in EPOCH_YEAR..LAST_YEAR : y % 4 = 0 /\ (y % 100 # 0 \/ y % 400 = 0)}

MONTH_FOR_NON_LEAP_YEAR == <<31, 28, 31, 30, 31, 30, 31, 31, 30, 31, 30, 31>>
MONTH_FOR_LEAP_YEAR == <<31, 29, 31, 30, 31, 30, 31, 31, 30, 31, 30, 31>>

(***************************************************************************)
(* u64 values.                                                             *)
(***************************************************************************)
\* the u64 d * MS_IN_DAY + r, for d >= 0 and 0 <= r < 2^31
U64(d, r) == [days |-> d + (r \div MS_IN_DAY), ms |-> r % MS_IN_DAY]

U64Lt(a, b) == a.days < b.days \/ (a.days = b.days /\ a.ms < b.ms)

U64Le(a, b) == ~U64Lt(b, a)

U64Add(a, b) == U64(a.days + b.days, a.ms + b.ms)

\* a - b for b <= a (the callers test for underflow)
U64Sub(a, b) ==
    IF a.ms >= b.ms
    THEN [days |-> a.days - b.days, ms |-> a.ms - b.ms]
    ELSE [days |-> a.days - b.days - 1, ms |-> a.ms + MS_IN_DAY - b.ms]

\* a % p for 0 < p, by halving: a % p = (a % 2p) % p and a % 2p < 2p
RECURSIVE U64ModHalving(_, _)
U64ModHalving(a, p) ==
    IF U64Lt(a, p) THEN a
    ELSE LET m == U64ModHalving(a, U64Add(p, p))
         IN  IF U64Le(p, m) THEN U64Sub(m, p) ELSE m

\* (16 * acc + digit * q) % p without leaving 32 bits, for acc, q < p < MS_IN_DAY
HexStepMod(acc, digit, q, p) == (((acc * 16) % p) + ((digit * q) % p)) % p

\* (days * MS_IN_DAY) % p for p < MS_IN_DAY, over the hex digits of days < 16^5
DaysMod(days, p) ==
    LET q == MS_IN_DAY % p
        a4 == HexStepMod(0, days \div 65536, q, p)
        a3 == HexStepMod(a4, (days \div 4096) % 16, q, p)
        a2 == HexStepMod(a3, (days \div 256) % 16, q, p)
        a1 == HexStepMod(a2, (days \div 16) % 16, q, p)
    IN  HexStepMod(a1, days % 16, q, p)

\* a % p for p > 0
U64Mod(a, p) ==
    IF p.days = 0 THEN U64(0, (DaysMod(a.days, p.ms) + (a.ms % p.ms)) % p.ms)
    ELSE IF p.ms = 0 THEN U64(a.days % p.days, a.ms)
    ELSE U64ModHalving(a, p)

U64Zero == U64(0, 0)

(***************************************************************************)
(* Results: a value, Option::None, or a panic.                             *)
(***************************************************************************)
Ok(v) == [tag |-> "Ok", val |-> v]
Some(v) == [tag |-> "Some", val |-> v]
None == [tag |-> "None"]
Panic == [tag |-> "Panic"]

DateTime(y, mo, d, h, mi, s, msec) ==
    [year |-> y, month |-> mo, day |-> d, hour |-> h, minute |-> mi, second |-> s, ms |-> msec]

(***************************************************************************)
(* The offset tables.                                                      *)
(***************************************************************************)
\* number of leap years in 1..y
LeapsUpTo(y) == (y \div 4) - (y \div 100) + (y \div 400)

\* days from the epoch to the start of year EPOCH_YEAR + i: 365 per year
\* plus one per leap year in EPOCH_YEAR .. EPOCH_YEAR + i - 1
YearDays(i) == 365 * i + LeapsUpTo(EPOCH_YEAR + i - 1) - LeapsUpTo(EPOCH_YEAR - 1)

\* index 0 is EPOCH_YEAR, the last index is LAST_YEAR
YEAR_MS_OFFSETS == [i \in 0..(LAST_YEAR - EPOCH_YEAR) |-> U64(YearDays(i), 0)]

RECURSIVE SumTo(_, _)
SumTo(seq, n) == IF n = 0 THEN 0 ELSE SumTo(seq, n - 1) + seq[n]

\* 13 entries: the offset of the start of each month, and the year's length
LEAP_YEAR_MONTH_OFFSETS == [i \in 0..12 |-> U64(SumTo(MONTH_FOR_LEAP_YEAR, i), 0)]
NON_LEAP_YEAR_MONTH_OFFSETS == [i \in 0..12 |-> U64(SumTo(MONTH_FOR_NON_LEAP_YEAR, i), 0)]

(***************************************************************************)
(* Calendar::validate                                                      *)
(***************************************************************************)
\* validate with the leap year check left out: February always has 28 days
validate_no_leap(d) ==
    IF ~(d.year \in EPOCH_YEAR..LAST_YEAR) THEN "OutOfScope"
    ELSE IF ~(d.month \in 1..12) \/ ~(d.day \in 1..31) \/ d.hour >= 24
            \/ d.minute >= 60 \/ d.second >= 60 \/ d.ms >= 1000
    THEN "Invalid"
    ELSE IF d.day > MONTH_FOR_NON_LEAP_YEAR[d.month] THEN "Invalid"
    ELSE "Valid"

\* dt.month.checked_sub(1).expect(..) as usize, as an index into a 12-entry
\* table: -1 stands for the panic of the underflow or of the index
month_index(d) == IF d.month < 1 \/ d.month - 1 > 11 THEN -1 ELSE d.month - 1

validate(d) ==
    IF ~(d.year \in EPOCH_YEAR..(EPOCH_YEAR + (LAST_YEAR - EPOCH_YEAR + 1) - 1))
    THEN "OutOfScope"
    ELSE IF ~(d.month \in 1..12) \/ ~(d.day \in 1..31) \/ d.hour >= 24
            \/ d.minute >= 60 \/ d.second >= 60 \/ d.ms >= 1000
    THEN "Invalid"
    ELSE LET is_leap_year == d.year \in LEAP_YEARS
         IN  IF month_index(d) = -1 THEN "Panic"
             ELSE IF (is_leap_year /\ d.day > MONTH_FOR_LEAP_YEAR[month_index(d) + 1])
                     \/ (~is_leap_year /\ d.day > MONTH_FOR_NON_LEAP_YEAR[month_index(d) + 1])
             THEN "Invalid"
             ELSE "Valid"

(***************************************************************************)
(* Calendar::to_unixtime.  It panics when the year is outside the table    *)
(* (index out of bounds, or usize underflow below the epoch year), when    *)
(* month - 1 or day - 1 underflows (checked_sub().expect()) and when       *)
(* month - 1 is past the 13 month offsets.                                 *)
(***************************************************************************)
\* to_unixtime with the month offsets of a year that is not a leap year
to_unixtime_no_leap_months(d) ==
    IF d.year < EPOCH_YEAR \/ d.year - EPOCH_YEAR > LAST_YEAR - EPOCH_YEAR THEN Panic
    ELSE IF d.month < 1 \/ d.month - 1 > 12 THEN Panic
    ELSE IF d.day < 1 THEN Panic
    ELSE LET year_offset == YEAR_MS_OFFSETS[d.year - EPOCH_YEAR]
             month_offset == NON_LEAP_YEAR_MONTH_OFFSETS[d.month - 1]
             day_offset == U64(d.day - 1, 0)
             hour_offset == U64(0, d.hour * MS_IN_HOUR)
             minute_offset == U64(0, d.minute * MS_IN_MIN)
             second_offset == U64(0, d.second * MS_IN_SEC)
             ms_offset == U64(0, d.ms)
         IN  Ok(U64Add(year_offset, U64Add(month_offset, U64Add(day_offset,
                U64Add(hour_offset, U64Add(minute_offset, U64Add(second_offset, ms_offset)))))))

to_unixtime(d) ==
    IF d.year < EPOCH_YEAR \/ d.year - EPOCH_YEAR > LAST_YEAR - EPOCH_YEAR THEN Panic
    ELSE IF d.month < 1 \/ d.month - 1 > 12 THEN Panic
    ELSE IF d.day < 1 THEN Panic
    ELSE LET year_offset == YEAR_MS_OFFSETS[d.year - EPOCH_YEAR]
             month_offset == IF d.year \in LEAP_YEARS
                             THEN LEAP_YEAR_MONTH_OFFSETS[d.month - 1]
                             ELSE NON_LEAP_YEAR_MONTH_OFFSETS[d.month - 1]
             day_offset == U64(d.day - 1, 0)
             hour_offset == U64(0, d.hour * MS_IN_HOUR)
             minute_offset == U64(0, d.minute * MS_IN_MIN)
             second_offset == U64(0, d.second * MS_IN_SEC)
             ms_offset == U64(0, d.ms)
         IN  Ok(U64Add(year_offset, U64Add(month_offset, U64Add(day_offset,
                U64Add(hour_offset, U64Add(minute_offset, U64Add(second_offset, ms_offset)))))))

(***************************************************************************)
(* Calendar::to_unixtime_opt                                               *)
(***************************************************************************)
\* to_unixtime_opt that only turns away the years outside the table
to_unixtime_opt_year_only(d) ==
    IF validate(d) = "OutOfScope" THEN None
    ELSE IF to_unixtime(d) = Panic THEN Panic
    ELSE Some(to_unixtime(d).val)

to_unixtime_opt(d) ==
    IF validate(d) = "Panic" THEN Panic
    ELSE IF validate(d) = "Valid"
    THEN (IF to_unixtime(d) = Panic THEN Panic ELSE Some(to_unixtime(d).val))
    ELSE None

(***************************************************************************)
(* Calendar::from_unixtime.  The year loops are run in blocks of LoopBlock *)
(* iterations to keep the evaluation stack shallow; -1 stands for the      *)
(* panic of an index past the end of year_ms_offsets.                      *)
(***************************************************************************)
LoopBlock == 64

\* while ts > year_ms_offsets[year+1] { year += 1 }, at most fuel iterations
RECURSIVE YearUp(_, _, _)
YearUp(year, t, fuel) ==
    IF fuel = 0 \/ year + 1 > LAST_YEAR - EPOCH_YEAR THEN year
    ELSE IF U64Lt(YEAR_MS_OFFSETS[year + 1], t) THEN YearUp(year + 1, t, fuel - 1)
    ELSE year

RECURSIVE YearUpLoop(_, _)
YearUpLoop(year, t) ==
    LET y == YearUp(year, t, LoopBlock)
    IN  IF y + 1 > LAST_YEAR - EPOCH_YEAR THEN -1
        ELSE IF U64Lt(YEAR_MS_OFFSETS[y + 1], t) THEN YearUpLoop(y, t)
        ELSE y

\* while ts < year_ms_offsets[year] { year -= 1 }
RECURSIVE YearDownLoop(_, _)
YearDownLoop(year, t) ==
    IF U64Lt(t, YEAR_MS_OFFSETS[year]) THEN YearDownLoop(year - 1, t) ELSE year

\* while year_offset > month_offsets[month-1] { month += 1 }; -1 past the table
RECURSIVE MonthLoop(_, _, _)
MonthLoop(month, year_offset, month_offsets) ==
    IF month - 1 > 12 THEN -1
    ELSE IF U64Lt(month_offsets[month - 1], year_offset)
    THEN MonthLoop(month + 1, year_offset, month_offsets)
    ELSE month

from_unixtime(t) ==
    LET year0 == CURRENT_YEAR - EPOCH_YEAR
        year == IF U64Lt(YEAR_MS_OFFSETS[year0], t)
                THEN YearUpLoop(year0, t)
                ELSE YearDownLoop(year0 - 1, t)
    IN  IF year = -1 THEN Panic
        ELSE
        LET year_offset == U64Sub(t, YEAR_MS_OFFSETS[year])
            month_offsets == IF (year + EPOCH_YEAR) \in LEAP_YEARS
                             THEN LEAP_YEAR_MONTH_OFFSETS
                             ELSE NON_LEAP_YEAR_MONTH_OFFSETS
            month == IF U64Lt(U64Zero, year_offset)
                     THEN LET m == MonthLoop(1, year_offset, month_offsets)
                          IN  IF m = -1 THEN -1 ELSE m - 1
                     ELSE 1
        IN  IF month = -1 THEN Panic
            ELSE
            LET day_offset == U64Sub(year_offset, month_offsets[month - 1])
                \* MS_IN_HOUR, MS_IN_MIN and MS_IN_SEC divide MS_IN_DAY, so the
                \* remainders of day_offset are those of its ms part
                day == day_offset.days + 1
                hour == day_offset.ms \div MS_IN_HOUR
                minute == (day_offset.ms % MS_IN_HOUR) \div MS_IN_MIN
                second == (day_offset.ms % MS_IN_MIN) \div MS_IN_SEC
                msec == day_offset.ms % MS_IN_SEC
            IN  Ok(DateTime(year + EPOCH_YEAR, month, day, hour, minute, second, msec))

(***************************************************************************)
(* Frequency (types.rs): the discriminant of a fixed-duration frequency is *)
(* its length in ms; Year and Month carry the tags 666 and 999.            *)
(***************************************************************************)
Frequencies == {"Year", "Month", "Week", "Day", "Hour", "Minute", "Second", "Ms"}

FixedFrequencies == Frequencies \ {"Year", "Month"}

\* *freq as u64
FreqValue(f) ==
    CASE f = "Year" -> U64(0, 666)
      [] f = "Month" -> U64(0, 999)
      [] f = "Week" -> U64(7, 0)
      [] f = "Day" -> U64(1, 0)
      [] f = "Hour" -> U64(0, MS_IN_HOUR)
      [] f = "Minute" -> U64(0, MS_IN_MIN)
      [] f = "Second" -> U64(0, MS_IN_SEC)
      [] f = "Ms" -> U64(0, 1)

\* u * k in u64, for a multiplier k with u.ms * k < 2^31
U64Times(u, k) == U64(u.days * k, u.ms * k)

\* DateTime::to_day_unixtime: ms from the start of the month
to_day_unixtime(d) ==
    IF d.day < 1 THEN Panic
    ELSE Ok(U64(d.day - 1, d.hour * MS_IN_HOUR + d.minute * MS_IN_MIN
                           + d.second * MS_IN_SEC + d.ms))

\* utils::ceil_div, for y > 0
ceil_div(x, y) == (x \div y) + (IF x % y # 0 THEN 1 ELSE 0)

(***************************************************************************)
(* Calendar::next_occurrence_ms.  `checked` is the build's overflow-checks *)
(* setting: an integer overflow panics when it is on (debug) and wraps     *)
(* when it is off (release).  The delta of a rule is Ok(u64), Panic, or    *)
(* Wrapped(c): the u64 that to_unixtime(candidate) - to_unixtime(now)      *)
(* wrapped to, 2^64 + c - now_in_ms, for a candidate c before now.         *)
(* CastWrap stands for a negative i64 cast to u32, which the model does    *)
(* not follow further.                                                     *)
(***************************************************************************)
Wrapped(c) == [tag |-> "Wrapped", cand |-> c]
CastWrap == [tag |-> "CastWrap"]

\* a + b in u16: -1 for the panic of an overflow
add_u16(checked, a, b) ==
    IF a + b > 65535 THEN (IF checked THEN -1 ELSE (a + b) % 65536) ELSE a + b

\* self.to_unixtime(&next_occurrence) - self.to_unixtime(now)
candidate_delta(checked, next_occurrence, now_in_ms) ==
    LET c == to_unixtime(next_occurrence)
    IN  IF c = Panic THEN Panic
        ELSE IF U64Lt(c.val, now_in_ms)
        THEN (IF checked THEN Panic ELSE Wrapped(c.val))
        ELSE Ok(U64Sub(c.val, now_in_ms))

\* the month difference with > in place of >= between the times of month
m_delta_strict(n, start) ==
    n.month - start.month
    + (IF U64Lt(to_day_unixtime(start).val, to_day_unixtime(n).val) THEN 1 ELSE 0)

\* now.month - start.month + i64::from(now.to_day_unixtime() >= start.to_day_unixtime())
m_delta(n, start) ==
    n.month - start.month
    + (IF U64Le(to_day_unixtime(start).val, to_day_unixtime(n).val) THEN 1 ELSE 0)

\* the Year rule without the rounding up to a multiple of the multiplier
year_delta_unrounded(checked, n, now_in_ms, start, multiplier) ==
    IF to_day_unixtime(n) = Panic \/ to_day_unixtime(start) = Panic THEN Panic
    ELSE
    LET y_delta == n.year - start.year + (IF m_delta(n, start) > 0 THEN 1 ELSE 0)
    IN  IF y_delta < 0 THEN CastWrap
        ELSE candidate_delta(checked,
                DateTime(start.year + y_delta, start.month, start.day, start.hour,
                         start.minute, start.second, start.ms),
                now_in_ms)

year_delta(checked, n, now_in_ms, start, multiplier) ==
    IF to_day_unixtime(n) = Panic \/ to_day_unixtime(start) = Panic THEN Panic
    ELSE
    LET y_delta == n.year - start.year + (IF m_delta(n, start) > 0 THEN 1 ELSE 0)
    IN  IF y_delta < 0 THEN CastWrap
        ELSE IF multiplier = 0 THEN Panic
        ELSE
        LET total_y_from_start == ceil_div(y_delta, multiplier) * multiplier
            year == add_u16(checked, start.year, total_y_from_start % 65536)
        IN  IF year = -1 THEN Panic
            ELSE candidate_delta(checked,
                    DateTime(year, start.month, start.day, start.hour,
                             start.minute, start.second, start.ms),
                    now_in_ms)

\* the Month rule without the rounding up to a multiple of the multiplier
month_delta_unrounded(checked, n, now_in_ms, start, multiplier) ==
    IF to_day_unixtime(n) = Panic \/ to_day_unixtime(start) = Panic THEN Panic
    ELSE
    LET total_m_delta == (n.year - start.year) * 12 + m_delta(n, start)
        months == start.month + total_m_delta - 1
    IN  IF total_m_delta < 0 \/ months < 0 THEN CastWrap
        ELSE candidate_delta(checked,
                DateTime(start.year + (months \div 12), (months % 12) + 1, start.day,
                         start.hour, start.minute, start.second, start.ms),
                now_in_ms)

month_delta(checked, n, now_in_ms, start, multiplier) ==
    IF to_day_unixtime(n) = Panic \/ to_day_unixtime(start) = Panic THEN Panic
    ELSE
    LET total_m_delta == (n.year - start.year) * 12 + m_delta(n, start)
    IN  IF total_m_delta < 0 THEN CastWrap
        ELSE IF multiplier = 0 THEN Panic
        ELSE
        LET total_m_from_start == ceil_div(total_m_delta, multiplier) * multiplier
            months == start.month + total_m_from_start - 1
        IN  IF months < 0 THEN (IF checked THEN Panic ELSE CastWrap)
            ELSE
            LET year == add_u16(checked, start.year, (months \div 12) % 65536)
            IN  IF year = -1 THEN Panic
                ELSE candidate_delta(checked,
                        DateTime(year, (months % 12) + 1, start.day, start.hour,
                                 start.minute, start.second, start.ms),
                        now_in_ms)

\* the fixed-duration rule with the period of a multiplier of 1
fixed_delta_unit(freq, now_in_ms, start_in_ms, multiplier) ==
    LET freq_in_ms == FreqValue(freq)
        ms_in_this_period == U64Mod(U64Sub(now_in_ms, start_in_ms), freq_in_ms)
    IN  IF ms_in_this_period = U64Zero
        THEN Ok(freq_in_ms)
        ELSE Ok(U64Sub(freq_in_ms, ms_in_this_period))

fixed_delta(freq, now_in_ms, start_in_ms, multiplier) ==
    LET freq_in_ms == U64Times(FreqValue(freq), multiplier)
    IN  IF freq_in_ms = U64Zero THEN Panic
        ELSE
        LET ms_in_this_period == U64Mod(U64Sub(now_in_ms, start_in_ms), freq_in_ms)
        IN  IF ms_in_this_period = U64Zero
            THEN Ok(freq_in_ms)
            ELSE Ok(U64Sub(freq_in_ms, ms_in_this_period))

\* the closure mapped over schedule.items
item_delta(checked, n, now_in_ms, start, start_in_ms, item) ==
    CASE item[1] = "Year" -> year_delta(checked, n, now_in_ms, start, item[2])
      [] item[1] = "Month" -> month_delta(checked, n, now_in_ms, start, item[2])
      [] OTHER -> fixed_delta(item[1], now_in_ms, start_in_ms, item[2])

\* a <= b for two deltas: a wrapped delta is above every delta that did not wrap
delta_le(a, b) ==
    CASE a.tag = "Ok" /\ b.tag = "Ok" -> U64Le(a.val, b.val)
      [] a.tag = "Ok" /\ b.tag = "Wrapped" -> TRUE
      [] a.tag = "Wrapped" /\ b.tag = "Ok" -> FALSE
      [] OTHER -> U64Le(a.cand, b.cand)

\* the first delta in place of the least
iter_first(deltas) == deltas[1]

\* Iterator::min over the deltas, for a non-empty sequence
RECURSIVE iter_min(_)
iter_min(deltas) ==
    IF Len(deltas) = 1 THEN deltas[1]
    ELSE LET rest == iter_min(Tail(deltas))
         IN  IF delta_le(deltas[1], rest) THEN deltas[1] ELSE rest

\* the end cutoff with a trigger on end left out
end_cutoff_strict(now_in_ms, trigger, end_r) ==
    IF end_r = None THEN Some(trigger)
    ELSE IF U64Lt(U64Add(now_in_ms, trigger), end_r.val) THEN Some(trigger)
    ELSE None

\* ensure trigger doesn't exceed end; end_r is None or Ok(to_unixtime(end))
end_cutoff(now_in_ms, trigger, end_r) ==
    IF end_r = None THEN Some(trigger)
    ELSE IF U64Le(U64Add(now_in_ms, trigger), end_r.val) THEN Some(trigger)
    ELSE None

\* next_occurrence_ms with a delta of 0 for a schedule with no rule
next_occurrence_ms_empty_zero(checked, n, sch) ==
    LET now_r == to_unixtime(n)
        start_r == to_unixtime(sch.start)
    IN  IF now_r = Panic \/ start_r = Panic THEN Panic
        ELSE
        LET now_in_ms == now_r.val
            start_in_ms == start_r.val
            end_r == IF sch.end = None THEN None ELSE to_unixtime(sch.end.val)
        IN  IF U64Lt(now_in_ms, start_in_ms) THEN Some(U64Sub(start_in_ms, now_in_ms))
            ELSE IF end_r = Panic THEN Panic
            ELSE IF end_r # None /\ U64Lt(end_r.val, now_in_ms) THEN None
            ELSE
            LET deltas == [i \in 1..Len(sch.items) |->
                            item_delta(checked, n, now_in_ms, sch.start, start_in_ms, sch.items[i])]
            IN  IF \E i \in 1..Len(sch.items) : deltas[i] = Panic THEN Panic
                ELSE IF \E i \in 1..Len(sch.items) : deltas[i] = CastWrap THEN CastWrap
                ELSE IF Len(sch.items) = 0 THEN Some(U64Zero)
                ELSE
                LET trigger == iter_min(deltas)
                IN  IF trigger.tag = "Wrapped"
                    \* no end, or now_in_ms + trigger wraps back to the candidate,
                    \* which is before now and so not after end
                    THEN trigger
                    ELSE end_cutoff(now_in_ms, trigger.val, end_r)

\* next_occurrence_ms with the expiry tested before the start
next_occurrence_ms_expiry_first(checked, n, sch) ==
    LET now_r == to_unixtime(n)
        start_r == to_unixtime(sch.start)
    IN  IF now_r = Panic \/ start_r = Panic THEN Panic
        ELSE
        LET now_in_ms == now_r.val
            start_in_ms == start_r.val
            end_r == IF sch.end = None THEN None ELSE to_unixtime(sch.end.val)
        IN  IF end_r = Panic THEN Panic
            ELSE IF end_r # None /\ U64Lt(end_r.val, now_in_ms) THEN None
            ELSE IF U64Lt(now_in_ms, start_in_ms) THEN Some(U64Sub(start_in_ms, now_in_ms))
            ELSE
            LET deltas == [i \in 1..Len(sch.items) |->
                            item_delta(checked, n, now_in_ms, sch.start, start_in_ms, sch.items[i])]
            IN  IF \E i \in 1..Len(sch.items) : deltas[i] = Panic THEN Panic
                ELSE IF \E i \in 1..Len(sch.items) : deltas[i] = CastWrap THEN CastWrap
                ELSE IF Len(sch.items) = 0 THEN None
                ELSE
                LET trigger == iter_min(deltas)
                IN  IF trigger.tag = "Wrapped"
                    \* no end, or now_in_ms + trigger wraps back to the candidate,
                    \* which is before now and so not after end
                    THEN trigger
                    ELSE end_cutoff(now_in_ms, trigger.val, end_r)

next_occurrence_ms(checked, n, sch) ==
    LET now_r == to_unixtime(n)
        start_r == to_unixtime(sch.start)
    IN  IF now_r = Panic \/ start_r = Panic THEN Panic
        ELSE
        LET now_in_ms == now_r.val
            start_in_ms == start_r.val
            end_r == IF sch.end = None THEN None ELSE to_unixtime(sch.end.val)
        IN  IF U64Lt(now_in_ms, start_in_ms) THEN Some(U64Sub(start_in_ms, now_in_ms))
            ELSE IF end_r = Panic THEN Panic
            ELSE IF end_r # None /\ U64Lt(end_r.val, now_in_ms) THEN None
            ELSE
            LET deltas == [i \in 1..Len(sch.items) |->
                            item_delta(checked, n, now_in_ms, sch.start, start_in_ms, sch.items[i])]
            IN  IF \E i \in 1..Len(sch.items) : deltas[i] = Panic THEN Panic
                ELSE IF \E i \in 1..Len(sch.items) : deltas[i] = CastWrap THEN CastWrap
                ELSE IF Len(sch.items) = 0 THEN None
                ELSE
                LET trigger == iter_min(deltas)
                IN  IF trigger.tag = "Wrapped"
                    \* no end, or now_in_ms + trigger wraps back to the candidate,
                    \* which is before now and so not after end
                    THEN trigger
                    ELSE end_cutoff(now_in_ms, trigger.val, end_r)

(***************************************************************************)
(* Reference calendar, written from the Gregorian rules and not from the   *)
(* tables: what the claims compare the code with.                          *)
(***************************************************************************)
IsLeap(y) == y % 4 = 0 /\ (y % 100 # 0 \/ y % 400 = 0)

\* days from 1970-01-01 to the civil date y-m-d (proleptic Gregorian)
RefDaysFromCivil(y, m, d) ==
    LET yy == IF m <= 2 THEN y - 1 ELSE y
        era == yy \div 400
        yoe == yy - era * 400
        mp == IF m > 2 THEN m - 3 ELSE m + 9
        doy == (153 * mp + 2) \div 5 + d - 1
        doe == yoe * 365 + (yoe \div 4) - (yoe \div 100) + doy
    IN  era * 146097 + doe - 719468

\* the timestamp of a DateTime with valid fields
RefTimestamp(d) ==
    U64(RefDaysFromCivil(d.year, d.month, d.day),
        d.hour * MS_IN_HOUR + d.minute * MS_IN_MIN + d.second * MS_IN_SEC + d.ms)

\* the civil DateTime of a timestamp
RefDateTime(t) ==
    LET z == t.days + 719468
        era == z \div 146097
        doe == z - era * 146097
        yoe == (doe - (doe \div 1460) + (doe \div 36524) - (doe \div 146096)) \div 365
        doy == doe - (365 * yoe + (yoe \div 4) - (yoe \div 100))
        mp == (5 * doy + 2) \div 153
        d == doy - ((153 * mp + 2) \div 5) + 1
        m == IF mp < 10 THEN mp + 3 ELSE mp - 9
        y == yoe + era * 400 + (IF m <= 2 THEN 1 ELSE 0)
    IN  DateTime(y, m, d, t.ms \div MS_IN_HOUR, (t.ms % MS_IN_HOUR) \div MS_IN_MIN,
                 (t.ms % MS_IN_MIN) \div MS_IN_SEC, t.ms % MS_IN_SEC)

DaysInMonth(y, m) ==
    IF m = 2 THEN (IF IsLeap(y) THEN 29 ELSE 28)
    ELSE IF m \in {4, 6, 9, 11} THEN 30
    ELSE 31

(***************************************************************************)
(* Inputs.                                                                 *)
(***************************************************************************)
AnchorYears == {EPOCH_YEAR, 2000, CURRENT_YEAR, 2100, LAST_YEAR}

\* years around the anchors, one year outside the table on either side included
SampleYears == UNION {(a - YearWindow)..(a + YearWindow) : a \in AnchorYears}

ValidTimes == {<<0, 0, 0, 0>>, <<0, 0, 0, 1>>, <<0, 0, 1, 0>>, <<0, 1, 0, 0>>,
               <<1, 0, 0, 0>>, <<12, 34, 56, 789>>, <<23, 59, 59, 999>>}

InvalidTimes == {<<24, 0, 0, 0>>, <<0, 60, 0, 0>>, <<0, 0, 60, 0>>, <<0, 0, 0, 1000>>}

SampleDays == {0, 1, 2, 27, 28, 29, 30, 31, 32}

\* DateTimes with fields in and out of range
AnyDateTimes ==
    {DateTime(y, mo, d, t[1], t[2], t[3], t[4]) :
        y \in SampleYears, mo \in 0..14, d \in SampleDays, t \in ValidTimes \cup InvalidTimes}

T0 == DateTime(1970, 1, 1, 0, 0, 0, 0)

NoSchedule == [start |-> T0, items |-> <<>>, end |-> None]

\* timestamps of the supported range: day and ms offsets into the sampled years
SampleTimestamps ==
    {U64Add(YEAR_MS_OFFSETS[y - EPOCH_YEAR], U64(dd, m)) :
        y \in SampleYears \cap (EPOCH_YEAR..LAST_YEAR),
        dd \in {0, 1, 30, 31, 58, 59, 60, 364},
        m \in {0, 1, 45296789, MS_IN_DAY - 1}}

(***************************************************************************)
(* The conversions as a state machine: a caller validates or converts a    *)
(* value, may convert the result back, and returns.                        *)
(***************************************************************************)
Init ==
    /\ pc = "idle"
    /\ dt = T0
    /\ ts = U64Zero
    /\ ret = None
    /\ overflow_checks = TRUE
    /\ now = T0
    /\ schedule = NoSchedule
    /\ last_run = None
    /\ lr = T0
    /\ lr_ms = U64Zero
    /\ triggers = <<>>
    /\ next_trigger = None

Validate ==
    /\ pc = "idle"
    /\ \E d \in AnyDateTimes :
        /\ dt' = d
        /\ ret' = validate(d)
    /\ pc' = "validate"
    /\ UNCHANGED <<ts, sched_vars, enum_vars>>

ToUnixtime ==
    /\ pc = "idle"
    /\ \E d \in AnyDateTimes :
        /\ dt' = d
        /\ ret' = to_unixtime(d)
    /\ pc' = "to_unixtime"
    /\ UNCHANGED <<ts, sched_vars, enum_vars>>

FromUnixtime ==
    /\ pc = "idle"
    /\ \E t \in SampleTimestamps :
        /\ ts' = t
        /\ ret' = from_unixtime(t)
    /\ pc' = "from_unixtime"
    /\ UNCHANGED <<dt, sched_vars, enum_vars>>

ToUnixtimeOpt ==
    /\ pc = "idle"
    /\ \E d \in AnyDateTimes :
        /\ dt' = d
        /\ ret' = to_unixtime_opt(d)
    /\ pc' = "to_unixtime_opt"
    /\ UNCHANGED <<ts, sched_vars, enum_vars>>

\* c.from_unixtime(c.to_unixtime(&dt))
FromOfTo ==
    /\ pc = "to_unixtime"
    /\ ret.tag = "Ok"
    /\ ts' = ret.val
    /\ ret' = from_unixtime(ret.val)
    /\ pc' = "from_of_to"
    /\ UNCHANGED <<dt, sched_vars, enum_vars>>

\* c.to_unixtime(&c.from_unixtime(ts))
ToOfFrom ==
    /\ pc = "from_unixtime"
    /\ ret.tag = "Ok"
    /\ dt' = ret.val
    /\ ret' = to_unixtime(ret.val)
    /\ pc' = "to_of_from"
    /\ UNCHANGED <<ts, sched_vars, enum_vars>>

Return ==
    /\ pc # "idle"
    /\ pc' = "idle"
    /\ dt' = T0
    /\ ts' = U64Zero
    /\ ret' = None
    /\ overflow_checks' = TRUE
    /\ now' = T0
    /\ schedule' = NoSchedule
    /\ last_run' = None
    /\ lr' = T0
    /\ lr_ms' = U64Zero
    /\ triggers' = <<>>
    /\ next_trigger' = None

Next ==
    \/ Validate
    \/ ToUnixtime
    \/ ToUnixtimeOpt
    \/ FromUnixtime
    \/ FromOfTo
    \/ ToOfFrom
    \/ Return

Spec == Init /\ [][Next]_vars

(***************************************************************************)
(* The schedule query as a state machine: a caller builds now and a        *)
(* schedule, asks for the next occurrence, and returns.                    *)
(***************************************************************************)
Schedule(start, items, end) == [start |-> start, items |-> items, end |-> end]

Midnight == <<0, 0, 0, 0>>
Afternoon == <<12, 34, 56, 789>>

\* valid starts: first and last days of short and long months, a leap day
SchedStarts ==
    {d \in {DateTime(y, mo, dd, t[1], t[2], t[3], t[4]) :
                y \in {2023, 2024}, mo \in {1, 2, 12}, dd \in {1, 28, 29, 31},
                t \in {Midnight, Afternoon}} :
        validate(d) = "Valid"}

FewStarts ==
    {DateTime(2023, 1, 1, 0, 0, 0, 0), DateTime(2023, 1, 31, 12, 34, 56, 789),
     DateTime(2024, 2, 28, 0, 0, 0, 0)}

\* now - start, for a now at or after start
NowOffsets ==
    {U64(0, 0), U64(0, 1), U64(0, 1000), U64(0, 2000), U64(0, MS_IN_HOUR - 1),
     U64(0, MS_IN_HOUR), U64(0, 3 * MS_IN_HOUR), U64(1, 0), U64(6, MS_IN_DAY - 1),
     U64(7, 0), U64(27, 5), U64(28, 0), U64(29, 0), U64(30, 0), U64(31, 0),
     U64(31, 1), U64(59, 0), U64(60, 0), U64(365, 0), U64(366, 0),
     U64(400, 45296789), U64(731, 0)}

FewOffsets ==
    {U64(0, 0), U64(0, 1000), U64(0, MS_IN_HOUR), U64(0, 3 * MS_IN_HOUR),
     U64(6, MS_IN_DAY - 1), U64(31, 0), U64(59, 0), U64(366, 0)}

\* start - now, for a now before start
BeforeOffsets == {U64(0, 1), U64(1, MS_IN_HOUR)}

\* end - start
EndOffsets ==
    {U64(0, 0), U64(0, 3000), U64(0, 3 * MS_IN_HOUR), U64(31, 0), U64(366, 0)}

\* the DateTimes a caller passes in are those of a correct calendar
NowsOf(start, offsets) ==
    {RefDateTime(U64Add(RefTimestamp(start), o)) : o \in offsets}
    \cup {RefDateTime(U64Sub(RefTimestamp(start), o)) : o \in BeforeOffsets}

\* start - end, for an end before start
EndBeforeOffsets == {U64(0, MS_IN_HOUR)}

EndsOf(start) ==
    {None} \cup {Some(RefDateTime(U64Add(RefTimestamp(start), o))) : o \in EndOffsets}
    \cup {Some(RefDateTime(U64Sub(RefTimestamp(start), o))) : o \in EndBeforeOffsets}

Rules == Frequencies \X (1..MaxMult)

RuleMenu == {<<"Year", 1>>, <<"Month", 2>>, <<"Hour", 3>>, <<"Second", 3>>}

ItemLists == UNION {[1..n -> RuleMenu] : n \in 0..MaxItems}

Query(c, n, sch) ==
    /\ overflow_checks' = c
    /\ now' = n
    /\ schedule' = sch
    /\ ret' = next_occurrence_ms(c, n, sch)
    /\ pc' = "next_occurrence_ms"
    /\ UNCHANGED <<conv_vars, enum_vars>>

\* a single rule and no end
NextOccurrenceRule ==
    /\ pc = "idle"
    /\ \E st \in SchedStarts : \E n \in NowsOf(st, NowOffsets) :
       \E r \in Rules, c \in BOOLEAN :
            Query(c, n, Schedule(st, <<r>>, None))

\* a list of rules, with and without an end
NextOccurrenceList ==
    /\ pc = "idle"
    /\ \E st \in FewStarts : \E n \in NowsOf(st, FewOffsets), e \in EndsOf(st) :
       \E items \in ItemLists, c \in BOOLEAN :
            Query(c, n, Schedule(st, items, e))

NextSched ==
    \/ NextOccurrenceRule
    \/ NextOccurrenceList
    \/ Return

SpecSched == Init /\ [][NextSched]_vars

(***************************************************************************)
(* Claims on the conversions and on validate.                              *)
(***************************************************************************)
\* C1: for every DateTime d that validate classifies as Valid,
\* from_unixtime(to_unixtime(d)) = d, first days of a month at
\* 00:00:00.000 and dates in year 4000 included.
C1_RoundTripValid ==
    (pc = "from_of_to" /\ validate(dt) = "Valid") => ret = Ok(dt)

\* C2: for every timestamp t from 0 to the last millisecond of year 4000,
\* from_unixtime(t) returns a DateTime and to_unixtime of it is t.
C2_RoundTripTimestamp ==
    /\ pc = "from_unixtime" => ret.tag = "Ok"
    /\ pc = "to_of_from" => ret = Ok(ts)

\* C3: validate is OutOfScope iff the year is outside 1970..4000; otherwise
\* Invalid iff a field is out of its static range or the day exceeds the
\* length of the month (Feb 29 exactly in leap years); otherwise Valid; and
\* it never panics.
C3_ValidateClassifies ==
    pc = "validate" =>
        ret = IF dt.year < 1970 \/ dt.year > 4000 THEN "OutOfScope"
              ELSE IF \/ dt.month < 1 \/ dt.month > 12
                      \/ dt.day < 1 \/ dt.day > 31
                      \/ dt.hour >= 24 \/ dt.minute >= 60
                      \/ dt.second >= 60 \/ dt.ms >= 1000
                      \/ dt.day > DaysInMonth(dt.year, dt.month)
              THEN "Invalid"
              ELSE "Valid"

\* a Feb 29 of a leap year was classified Valid
C3_Witness ==
    /\ pc = "validate"
    /\ dt.month = 2 /\ dt.day = 29 /\ IsLeap(dt.year)
    /\ ret = "Valid"

(***************************************************************************)
(* Queries with multipliers that put every occurrence after start past the *)
(* last year of the table.                                                 *)
(***************************************************************************)
\* years and months past the table from any sampled start; 65536 years, where
\* the u16 year wraps to start's year, and one year more
FarRules ==
    {<<"Year", LAST_YEAR - EPOCH_YEAR>>, <<"Year", 65536>>, <<"Year", 65537>>,
     <<"Month", 12 * (LAST_YEAR - EPOCH_YEAR)>>, <<"Month", 12 * 65536>>,
     <<"Month", 12 * 65537>>}

NextOccurrenceFar ==
    /\ pc = "idle"
    /\ \E st \in SchedStarts : \E n \in NowsOf(st, FewOffsets) :
       \E r \in FarRules, c \in BOOLEAN :
            Query(c, n, Schedule(st, <<r>>, None))

NextFar ==
    \/ NextOccurrenceFar
    \/ Return

SpecFar == Init /\ [][NextFar]_vars

(***************************************************************************)
(* Calendar::validate_schedule, and the query of a schedule it accepted.   *)
(***************************************************************************)
\* a schedule without a multiplier check
validate_schedule_any_multiplier(sch) ==
    LET start_r == to_unixtime(sch.start)
        end_r == IF sch.end = None THEN None ELSE to_unixtime(sch.end.val)
    IN  IF start_r = Panic \/ end_r = Panic THEN "Panic"
        ELSE IF end_r # None /\ U64Lt(end_r.val, start_r.val) THEN "Invalid"
        ELSE "Valid"

\* valid iff every multiplier is >= 1 and end is absent or not before start,
\* by the raw timestamps of start and end
validate_schedule(sch) ==
    LET start_r == to_unixtime(sch.start)
        end_r == IF sch.end = None THEN None ELSE to_unixtime(sch.end.val)
    IN  IF \E i \in 1..Len(sch.items) : sch.items[i][2] = 0 THEN "Invalid"
        ELSE IF start_r = Panic \/ end_r = Panic THEN "Panic"
        ELSE IF end_r # None /\ U64Lt(end_r.val, start_r.val) THEN "Invalid"
        ELSE "Valid"

\* the rules of RuleMenu and rules with a multiplier of 0
AnyRuleMenu == RuleMenu \cup {<<"Hour", 0>>, <<"Year", 0>>}

AnyItemLists == UNION {[1..n -> AnyRuleMenu] : n \in 0..MaxItems}

ValidateSchedule ==
    /\ pc = "idle"
    /\ \E st \in FewStarts : \E e \in EndsOf(st), items \in AnyItemLists :
        /\ schedule' = Schedule(st, items, e)
        /\ ret' = validate_schedule(Schedule(st, items, e))
    /\ pc' = "validate_schedule"
    /\ UNCHANGED <<conv_vars, overflow_checks, now, enum_vars>>

\* the caller queries the schedule that was accepted
QueryAccepted ==
    /\ pc = "validate_schedule"
    /\ ret = "Valid"
    /\ \E n \in NowsOf(schedule.start, FewOffsets), c \in BOOLEAN :
        /\ overflow_checks' = c
        /\ now' = n
        /\ ret' = next_occurrence_ms(c, n, schedule)
    /\ pc' = "query_accepted"
    /\ UNCHANGED <<conv_vars, schedule, enum_vars>>

NextValid ==
    \/ ValidateSchedule
    \/ QueryAccepted
    \/ Return

SpecValid == Init /\ [][NextValid]_vars

(***************************************************************************)
(* Calendar::next_occurrence_ms_with_past_triggers, one action for the     *)
(* set-up, one for an iteration of the while loop, one for the return.     *)
(***************************************************************************)
EnumStarts ==
    {DateTime(2000, 1, 1, 2, 0, 0, 0), DateTime(2023, 1, 1, 0, 0, 0, 0),
     DateTime(2023, 1, 31, 12, 34, 56, 789)}

EnumItemLists ==
    {<<<<"Hour", 3>>>>, <<<<"Day", 1>>>>, <<<<"Month", 1>>>>, <<<<"Year", 1>>>>,
     <<<<"Day", 1>>, <<"Hour", 3>>>>, <<>>}

\* now - start
EnumNowOffsets ==
    {U64(0, 0), U64(0, 4 * MS_IN_HOUR), U64(0, 22 * MS_IN_HOUR), U64(30, 0), U64(32, 0)}

EnumEnds(start) ==
    {None} \cup {Some(RefDateTime(U64Add(RefTimestamp(start), o))) :
                    o \in {U64(0, 21 * MS_IN_HOUR), U64(40, 0)}}

\* absent, before now, equal to now, after now
LastRuns(n) ==
    {None, Some(n)}
    \cup {Some(RefDateTime(U64Sub(RefTimestamp(n), o))) :
            o \in {U64(0, 3 * MS_IN_HOUR), U64(0, 5 * MS_IN_HOUR)}}
    \cup {Some(RefDateTime(U64Add(RefTimestamp(n), U64(0, MS_IN_HOUR))))}

\* let now_ms = self.to_unixtime(&now)
now_ms == to_unixtime(now).val

\* the set-up before the loop
EnumStart ==
    /\ pc = "idle"
    /\ \E st \in EnumStarts, items \in EnumItemLists, c \in BOOLEAN :
       \E n \in NowsOf(st, EnumNowOffsets), e \in EnumEnds(st) :
       \E l \in LastRuns(n) :
        LET first == IF l = None THEN T0 ELSE l.val
        IN  /\ overflow_checks' = c
            /\ now' = n
            /\ schedule' = Schedule(st, items, e)
            /\ last_run' = l
            /\ triggers' = <<>>
            /\ next_trigger' = None
            /\ IF to_unixtime(n) = Panic \/ to_unixtime(first) = Panic
               THEN /\ pc' = "enum_done"
                    /\ ret' = Panic
                    /\ UNCHANGED <<lr, lr_ms>>
               ELSE /\ pc' = "enum_loop"
                    /\ lr' = first
                    /\ lr_ms' = to_unixtime(first).val
                    /\ UNCHANGED ret
    /\ UNCHANGED conv_vars

\* one iteration of while last_run_ms <= now_ms
EnumIter ==
    /\ pc = "enum_loop"
    /\ U64Le(lr_ms, now_ms)
    /\ Len(triggers) < MaxTriggers
    /\ LET r == next_occurrence_ms(overflow_checks, lr, schedule)
           \* x + last_run_ms; a wrapped delta wraps back to the candidate
           trigger_ms == IF r.tag = "Wrapped" THEN r.cand ELSE U64Add(r.val, lr_ms)
       IN  CASE r.tag \in {"Some", "Wrapped"} ->
                 IF from_unixtime(trigger_ms) = Panic
                 THEN /\ pc' = "enum_done"
                      /\ ret' = Panic
                      /\ UNCHANGED <<lr, lr_ms, triggers, next_trigger>>
                 ELSE /\ next_trigger' = Some(trigger_ms)
                      /\ lr' = from_unixtime(trigger_ms).val
                      /\ lr_ms' = trigger_ms
                      /\ IF U64Le(trigger_ms, now_ms)
                         THEN triggers' = Append(triggers, trigger_ms) /\ pc' = "enum_loop"
                         ELSE triggers' = triggers /\ pc' = "enum_break"
                      /\ UNCHANGED ret
             [] r.tag = "None" ->
                 /\ next_trigger' = None
                 /\ pc' = "enum_break"
                 /\ UNCHANGED <<lr, lr_ms, triggers, ret>>
             [] OTHER ->
                 /\ pc' = "enum_done"
                 /\ ret' = r
                 /\ UNCHANGED <<lr, lr_ms, triggers, next_trigger>>
    /\ UNCHANGED <<conv_vars, sched_vars, last_run>>

\* after the loop: (triggers, next_trigger.map(|x| x - now_ms))
EnumExit ==
    /\ pc = "enum_break" \/ (pc = "enum_loop" /\ ~U64Le(lr_ms, now_ms))
    /\ ret' = IF next_trigger = None THEN Ok(<<triggers, None>>)
              ELSE IF U64Lt(next_trigger.val, now_ms)
              THEN (IF overflow_checks THEN Panic
                    ELSE Ok(<<triggers, Wrapped(next_trigger.val)>>))
              ELSE Ok(<<triggers, Some(U64Sub(next_trigger.val, now_ms))>>)
    /\ pc' = "enum_done"
    /\ UNCHANGED <<conv_vars, sched_vars, enum_vars>>

NextEnum ==
    \/ EnumStart
    \/ EnumIter
    \/ EnumExit
    \/ Return

SpecEnum == Init /\ [][NextEnum]_vars

(***************************************************************************)
(* Claims about next_occurrence_ms, on the states of SpecSched.            *)
(***************************************************************************)
Queried == pc = "next_occurrence_ms"
StartTs == RefTimestamp(schedule.start)
NowTs == RefTimestamp(now)
Active == Queried /\ U64Le(StartTs, NowTs)
SingleRule == Queried /\ schedule.end = None /\ Len(schedule.items) = 1

\* the result for the same query on the schedule without its end
WithoutEnd ==
    next_occurrence_ms(overflow_checks, now,
                       Schedule(schedule.start, schedule.items, None))

\* the result for the single-item schedule built from item i
Single(i) ==
    next_occurrence_ms(overflow_checks, now,
                       Schedule(schedule.start, <<schedule.items[i]>>, None))

Perms(seq) ==
    {[i \in 1..Len(seq) |-> seq[f[i]]] :
        f \in {g \in [1..Len(seq) -> 1..Len(seq)] :
                \A i, j \in 1..Len(seq) : g[i] = g[j] => i = j}}

\* C6: with an end, now >= start and at least one rule, the cutoff is applied
\* once to the combined minimum m of the per-rule deltas: the result is Some(m)
\* iff now_ts + m <= end_ts and None otherwise; so it is None when now_ts >
\* end_ts, and a reported trigger is never after end.
C6_EndCutoff ==
    (Active /\ schedule.end # None /\ Len(schedule.items) > 0) =>
        LET m == WithoutEnd
            end_ts == RefTimestamp(schedule.end.val)
        IN  /\ m.tag = "Some"
            /\ ret = IF U64Le(U64Add(NowTs, m.val), end_ts) THEN Some(m.val) ELSE None
            /\ U64Lt(end_ts, NowTs) => ret = None
            /\ ret.tag = "Some" => U64Le(U64Add(NowTs, ret.val), end_ts)

\* a trigger landing exactly on end is reported
C6_Witness ==
    /\ Active /\ schedule.end # None /\ Len(schedule.items) > 0
    /\ ret.tag = "Some"
    /\ U64Add(NowTs, ret.val) = RefTimestamp(schedule.end.val)

\* C7: in the active phase with no end, the delta for several items is the
\* minimum of the deltas of the single-item schedules, and is the same for
\* every permutation of the items.
C7_EarliestRule ==
    (Active /\ schedule.end = None /\ Len(schedule.items) >= 2) =>
        /\ ret.tag = "Some"
        /\ \E i \in 1..Len(schedule.items) : Single(i) = ret
        /\ \A i \in 1..Len(schedule.items) :
            Single(i).tag = "Some" /\ U64Le(ret.val, Single(i).val)
        /\ \A q \in Perms(schedule.items) :
            next_occurrence_ms(overflow_checks, now,
                               Schedule(schedule.start, q, None)) = ret

\* the least delta is that of the second item, not of the first
C7_Witness ==
    /\ Active /\ schedule.end = None /\ Len(schedule.items) >= 2
    /\ ret = Single(2)
    /\ ret.tag = "Some" /\ Single(1).tag = "Some"
    /\ U64Lt(ret.val, Single(1).val)

\* C8: when now equals schedule.start, a single rule of any frequency and no
\* end gives Some(0).
C8_StartIsOccurrence ==
    (SingleRule /\ now = schedule.start) => ret = Some(U64Zero)

\* C9: a single fixed-duration rule with multiplier k >= 1, period P = unit * k,
\* no end and now strictly after start gives Some(d) with
\* (now_ts + d - start_ts) mod P = 0 and d <= P, and d = P - elapsed when
\* elapsed = (now_ts - start_ts) mod P is not zero.
C9_FixedPeriod ==
    (/\ SingleRule
     /\ schedule.items[1][1] \in FixedFrequencies
     /\ schedule.items[1][2] >= 1
     /\ U64Lt(StartTs, NowTs)) =>
        LET P == U64Times(FreqValue(schedule.items[1][1]), schedule.items[1][2])
            elapsed == U64Mod(U64Sub(NowTs, StartTs), P)
        IN  /\ ret.tag = "Some"
            /\ U64Mod(U64Sub(U64Add(NowTs, ret.val), StartTs), P) = U64Zero
            /\ U64Le(ret.val, P)
            /\ elapsed # U64Zero => ret.val = U64Sub(P, elapsed)

\* a multiplier of 2 or more, with more than one unit of the period elapsed
C9_Witness ==
    /\ SingleRule
    /\ schedule.items[1][1] \in FixedFrequencies
    /\ schedule.items[1][2] >= 2
    /\ U64Lt(StartTs, NowTs)
    /\ LET unit == FreqValue(schedule.items[1][1])
           P == U64Times(unit, schedule.items[1][2])
           elapsed == U64Mod(U64Sub(NowTs, StartTs), P)
       IN  U64Lt(unit, elapsed) /\ ret = Some(U64Sub(P, elapsed))

YearRuleQuery ==
    /\ SingleRule
    /\ schedule.items[1][1] = "Year"
    /\ schedule.items[1][2] >= 1
    /\ U64Lt(StartTs, NowTs)

YearRuleResult ==
    /\ ret.tag = "Some"
    /\ LET k == schedule.items[1][2]
           start == schedule.start
           t == RefDateTime(U64Add(NowTs, ret.val))
           months == (t.year - start.year) * 12 + t.month - start.month
       IN  /\ t.day = start.day /\ t.hour = start.hour
           /\ t.minute = start.minute /\ t.second = start.second
           /\ t.ms = start.ms
           /\ months >= 0 /\ months % (12 * k) = 0
           /\ U64Le(ret.val, U64(366 * k, 0))

LeapDay(d) == d.month = 2 /\ d.day = 29

\* C11 as stated: a single Year rule with multiplier k >= 1, every valid start,
\* no end and a valid now strictly after start gives Some(d) where now + d has
\* the day of month and time of day of start, is a multiple of 12 * k months
\* after start, and d <= k * 366 days.
C11_YearRuleAnyStart == YearRuleQuery => YearRuleResult

\* now and the k years after it are years of the offset table
YearsInTable == now.year + schedule.items[1][2] <= LAST_YEAR

\* C11 amended: the same for every valid start that is not 29 February, while
\* the occurrence is in a year of the offset table.
C11_YearRule ==
    (YearRuleQuery /\ ~LeapDay(schedule.start) /\ YearsInTable) => YearRuleResult

\* a multiplier of 2 or more whose rounding skips a year
C11_Witness ==
    /\ YearRuleQuery /\ ~LeapDay(schedule.start) /\ YearsInTable
    /\ schedule.items[1][2] >= 2
    /\ ret.tag = "Some"
    /\ U64Lt(U64(366, 0), ret.val)

\* C12: for every schedule (any items, an empty list included, and any end)
\* and every now whose timestamp is before that of schedule.start, the result
\* is Some(start_ts - now_ts).
C12_StartGating ==
    (Queried /\ U64Lt(NowTs, StartTs)) => ret = Some(U64Sub(StartTs, NowTs))

\* before start with no rule and an end that is already behind now
C12_Witness ==
    /\ Queried /\ U64Lt(NowTs, StartTs)
    /\ Len(schedule.items) = 0
    /\ schedule.end # None /\ U64Lt(RefTimestamp(schedule.end.val), NowTs)
    /\ ret = Some(U64Sub(StartTs, NowTs))

(***************************************************************************)
(* Claims about next_occurrence_ms_with_past_triggers, on SpecEnum.        *)
(***************************************************************************)
Enumerating == pc \in {"enum_loop", "enum_break"}
Enumerated == pc = "enum_done" /\ ret.tag = "Ok"
LastRunTs == IF last_run = None THEN U64Zero ELSE RefTimestamp(last_run.val)

\* C4: the first component is the trigger instants in (last_run, now], each
\* listed once, in strictly ascending order: the triggers collected so far are
\* strictly ascending and at or before now, and so are the triggers returned.
C4_TriggersAscending ==
    (Enumerating \/ Enumerated) =>
        /\ \A i \in 1..Len(triggers) : U64Le(triggers[i], NowTs)
        /\ \A i \in 1..(Len(triggers) - 1) : U64Lt(triggers[i], triggers[i + 1])
        /\ Enumerated => ret.val[1] = triggers

\* C5: for every last_run the second component is the delta from now to the
\* first trigger strictly after now, and None only when the schedule is expired
\* (no trigger after now fits at or before end).
C5_NextDelta ==
    (Enumerated /\ Len(schedule.items) > 0) =>
        ret.val[2] = next_occurrence_ms(overflow_checks, now, schedule)

NoRules == Len(schedule.items) = 0 /\ (Enumerating \/ Enumerated)

\* C13 as stated: for a schedule whose items list is empty next_occurrence_ms
\* gives None for every now, and the enumerator records no trigger for it.
C13_NoRulesNoTrigger ==
    NoRules =>
        /\ triggers = <<>>
        /\ pc = "enum_loop" => next_occurrence_ms(overflow_checks, lr, schedule) = None

\* C13 amended: for a schedule whose items list is empty next_occurrence_ms
\* gives None for every now at or after start and Some(start_ts - now_ts)
\* before it, and the enumerator records no trigger but the one at start, which
\* it records when start is in (last_run, now]; the delta it returns is None
\* when now is at or after start.
C13_NoRules ==
    NoRules =>
        /\ pc = "enum_loop" =>
            next_occurrence_ms(overflow_checks, lr, schedule)
                = IF U64Lt(lr_ms, StartTs) THEN Some(U64Sub(StartTs, lr_ms)) ELSE None
        /\ triggers \in {<<>>, <<StartTs>>}
        /\ triggers = <<StartTs>> => U64Lt(LastRunTs, StartTs) /\ U64Le(StartTs, NowTs)
        /\ Enumerated =>
            /\ (U64Lt(LastRunTs, StartTs) /\ U64Le(StartTs, NowTs)) => triggers = <<StartTs>>
            /\ U64Le(StartTs, NowTs) => ret.val[2] = None

\* the enumerator has returned the trigger at start and no delta for a schedule
\* with no rule, queried after start
C13_Witness ==
    /\ NoRules /\ Enumerated
    /\ U64Lt(StartTs, NowTs)
    /\ ret.val = <<<<StartTs>>, None>>

(***************************************************************************)
(* Claims about validate_schedule, on SpecValid.                           *)
(***************************************************************************)
MultipliersPositive == \A i \in 1..Len(schedule.items) : schedule.items[i][2] >= 1
EndNotBeforeStart ==
    schedule.end = None \/ U64Le(StartTs, RefTimestamp(schedule.end.val))

\* C14: validation accepts a schedule iff every multiplier is >= 1 and end is
\* absent or not before start (an empty list is accepted) and reports Invalid
\* otherwise; a schedule that is queried after it was accepted has no
\* multiplier of 0 and no end before start, and its query does not fail.
C14_ValidateSchedule ==
    /\ pc = "validate_schedule" =>
        ret = IF MultipliersPositive /\ EndNotBeforeStart THEN "Valid" ELSE "Invalid"
    /\ pc = "query_accepted" =>
        /\ MultipliersPositive /\ EndNotBeforeStart
        /\ ret.tag \in {"Some", "None"}

\* rejected for a multiplier of 0 alone
C14_Witness ==
    /\ pc = "validate_schedule"
    /\ ret = "Invalid"
    /\ ~MultipliersPositive /\ EndNotBeforeStart

(***************************************************************************)
(* Further claims about the conversions, on Spec.                          *)
(***************************************************************************)
\* a date of the Gregorian calendar in a supported year, with a time of day
IsCivil(d) ==
    /\ d.year >= 1970 /\ d.year <= 4000
    /\ d.month >= 1 /\ d.month <= 12
    /\ d.day >= 1 /\ d.day <= DaysInMonth(d.year, d.month)
    /\ d.hour < 24 /\ d.minute < 60 /\ d.second < 60 /\ d.ms < 1000

\* C15: to_unixtime_opt never panics: it returns Some(to_unixtime(d)) when d is
\* valid and None otherwise, month 0, day 0 and years out of range included.
C15_ToUnixtimeOpt ==
    pc = "to_unixtime_opt" =>
        ret = IF IsCivil(dt) THEN Some(RefTimestamp(dt)) ELSE None

\* None for a DateTime on which to_unixtime panics
C15_Witness ==
    /\ pc = "to_unixtime_opt"
    /\ to_unixtime(dt) = Panic
    /\ ret = None

\* fields statically in range, in a supported year, the day past the month's end
DayPastMonthEnd(d) ==
    /\ d.year >= 1970 /\ d.year <= 4000
    /\ d.month >= 1 /\ d.month <= 12
    /\ d.day >= 1 /\ d.day <= 31
    /\ d.hour < 24 /\ d.minute < 60 /\ d.second < 60 /\ d.ms < 1000
    /\ d.day > DaysInMonth(d.year, d.month)

\* C16: for a DateTime whose day exceeds its month's length, at any time of
\* day, from_unixtime(to_unixtime(d)) is the normalized date in the following
\* month with the same time of day, and never d itself.
C16_NormalizedOverflow ==
    (pc = "from_of_to" /\ DayPastMonthEnd(dt)) =>
        /\ ret # Ok(dt)
        /\ ret = Ok(DateTime(dt.year, dt.month + 1, dt.day - DaysInMonth(dt.year, dt.month),
                             dt.hour, dt.minute, dt.second, dt.ms))

\* the derived order of DateTime: its fields in the order of declaration
FieldKey(d) == <<d.year, d.month, d.day, d.hour, d.minute, d.second, d.ms>>

LexLt(a, b) ==
    \E i \in 1..7 :
        /\ \A j \in 1..(i - 1) : FieldKey(a)[j] = FieldKey(b)[j]
        /\ FieldKey(a)[i] < FieldKey(b)[i]

\* the DateTime one millisecond after a real date
Succ(d) ==
    IF d.ms < 999 THEN [d EXCEPT !.ms = d.ms + 1]
    ELSE IF d.second < 59 THEN [d EXCEPT !.ms = 0, !.second = d.second + 1]
    ELSE IF d.minute < 59 THEN [d EXCEPT !.ms = 0, !.second = 0, !.minute = d.minute + 1]
    ELSE IF d.hour < 23 THEN DateTime(d.year, d.month, d.day, d.hour + 1, 0, 0, 0)
    ELSE IF d.day < DaysInMonth(d.year, d.month)
    THEN DateTime(d.year, d.month, d.day + 1, 0, 0, 0, 0)
    ELSE IF d.month < 12 THEN DateTime(d.year, d.month + 1, 1, 0, 0, 0, 0)
    ELSE DateTime(d.year + 1, 1, 1, 0, 0, 0, 0)

\* valid dates to compare with: the ends of months and years, first and last ms
CompareDates ==
    {d \in {DateTime(y, mo, dd, t[1], t[2], t[3], t[4]) :
                y \in {EPOCH_YEAR, 2000, CURRENT_YEAR + YearWindow, LAST_YEAR},
                mo \in {1, 2, 3, 12}, dd \in {1, 28, 29, 31},
                t \in {<<0, 0, 0, 0>>, <<23, 59, 59, 999>>}} :
        validate(d) = "Valid"}

\* C17: to_unixtime is strictly monotone on valid dates: a < b in the order of
\* the fields (year, month, day, hour, minute, second, ms) implies
\* to_unixtime(a) < to_unixtime(b).
C17_Monotone ==
    (pc = "to_unixtime" /\ validate(dt) = "Valid") =>
        /\ ret.tag = "Ok"
        /\ \A b \in CompareDates \cup {e \in {Succ(dt)} : validate(e) = "Valid"} :
            /\ to_unixtime(b).tag = "Ok"
            /\ LexLt(dt, b) => U64Lt(ret.val, to_unixtime(b).val)
            /\ LexLt(b, dt) => U64Lt(to_unixtime(b).val, ret.val)

\* the last millisecond of a leap day, one millisecond before 1 March
C17_Witness ==
    /\ pc = "to_unixtime" /\ validate(dt) = "Valid"
    /\ dt.month = 2 /\ dt.day = 29
    /\ Succ(dt).month = 3
    /\ to_unixtime(Succ(dt)) = Ok(U64Add(ret.val, U64(0, 1)))

(***************************************************************************)
(* Further claims about the enumerator, on SpecEnum.                       *)
(***************************************************************************)
\* C18: the enumerator terminates for every valid schedule, now and last_run:
\* each iteration of its loop moves the cursor timestamp strictly forward or
\* exits, so the loop runs at most (triggers in (last_run, now]) + 1 times.
C18_CursorAdvances ==
    [][(pc = "enum_loop" /\ pc' = "enum_loop") => U64Lt(lr_ms, lr_ms')]_vars

(***************************************************************************)
(* Claims about candidates past the offset table, on SpecFar.              *)
(***************************************************************************)
\* a single Year or Month rule whose every occurrence after start is in a year
\* past the table, queried after start
FarQuery ==
    /\ SingleRule
    /\ U64Lt(StartTs, NowTs)
    /\ \/ /\ schedule.items[1][1] = "Year"
          /\ schedule.start.year + schedule.items[1][2] > LAST_YEAR
       \/ /\ schedule.items[1][1] = "Month"
          /\ schedule.start.year + (schedule.items[1][2] \div 12) > LAST_YEAR

\* C19: when the candidate of a Year or Month rule falls in a year past the
\* offset table, next_occurrence_ms surfaces a failure and never returns a
\* delta computed from a year that the 16-bit arithmetic truncated or wrapped.
C19_FarCandidateFails == FarQuery => ret = Panic

(***************************************************************************)
(* Claims about the fields of now that a query reads, on SpecSched.        *)
(***************************************************************************)
\* from_unixtime(to_unixtime(now)), the DateTime of now's timestamp
NowByTimestamp == from_unixtime(to_unixtime(now).val)

\* C20: next_occurrence_ms depends on now only through its timestamp: the
\* query with b = from_unixtime(to_unixtime(now)), which has the timestamp of
\* now, returns what the query with now returned.
C20_NowByTimestamp ==
    (Queried /\ to_unixtime(now).tag = "Ok" /\ NowByTimestamp.tag = "Ok")
        => /\ to_unixtime(NowByTimestamp.val) = to_unixtime(now)
           /\ ret = next_occurrence_ms(overflow_checks, NowByTimestamp.val, schedule)

(***************************************************************************)
(* Claims relating the two query operations, on SpecEnum.                  *)
(***************************************************************************)
\* last_run absent, or not after now
LastRunNotAfterNow == last_run = None \/ U64Le(RefTimestamp(last_run.val), NowTs)

\* C21: the two query operations agree: for last_run absent or at most now,
\* the next-future delta returned by next_occurrence_ms_with_past_triggers is
\* next_occurrence_ms(now, schedule), also for Month and Year rules whose
\* start day exceeds the length of some month.
C21_QueriesAgree ==
    (Enumerated /\ Len(schedule.items) > 0 /\ LastRunNotAfterNow) =>
        ret.val[2] = next_occurrence_ms(overflow_checks, now, schedule)

(***************************************************************************)
(* Claims about the sign of the deltas, on SpecSched.                      *)
(***************************************************************************)
\* a query at or after start with valid now and start and at least one rule,
\* every multiplier at least 1
ValidActive ==
    /\ Active
    /\ validate(now) = "Valid"
    /\ validate(schedule.start) = "Valid"
    /\ Len(schedule.items) > 0
    /\ MultipliersPositive

\* the delta of rule i of the schedule for now
RuleDelta(i) ==
    item_delta(overflow_checks, now, to_unixtime(now).val, schedule.start,
               to_unixtime(schedule.start).val, schedule.items[i])

====
